---- MODULE Spec2Model ----
(***************************************************************************)
(* A model of hrl/experiments/a2c_tf2.py: the A2C agent's rollout loop     *)
(* (A2CAgent.train), its evaluation loop (A2CAgent.test) and the return /  *)
(* advantage estimator (A2CAgent._returns_advantages).                     *)
(*                                                                         *)
(* Floats.  A float is a record [k, c].  k = "fin" is a finite value, kept *)
(* exactly as a polynomial in gamma with integer coefficients: c[i] is the *)
(* coefficient of gamma^(i-1), without trailing zeros (<<>> is 0).  The    *)
(* estimator only adds, negates, multiplies by gamma and multiplies by     *)
(* 1 - done, so this form is closed under it and no rounding is modelled.  *)
(* k = "pinf", "ninf", "nan" are the IEEE non-finite values, with the IEEE *)
(* rules inf * 0 = nan, inf - inf = nan, nan op x = nan.                   *)
(***************************************************************************)
EXTENDS Integers, Sequences, FiniteSets, TLC

\* ------------------------------------------------------------------ bounds
\* longest batch given to the estimator on its own
MaxLen == 4
\* longest batch of the two-input estimator runs
PairLen == 2
\* largest batch_sz and updates given to train, and most steps of one run
MaxBatch == 3
MaxUpdates == 3
MaxSteps == 6
\* cap on the iterations of test's while loop
MaxTestSteps == 3
\* np.product(env.observation_space.shape)
ObsLen == 3

\* gamma = GammaNum / GammaDen
GammaNum == 99
GammaDen == 100

\* ------------------------------------------------------------------ floats
Max(a, b) == IF a >= b THEN a ELSE b

RECURSIVE Trim(_)
Trim(p) ==
    IF p = <<>> THEN <<>>
    ELSE IF p[Len(p)] = 0 THEN Trim(SubSeq(p, 1, Len(p) - 1))
    ELSE p

Coef(p, i) == IF i <= Len(p) THEN p[i] ELSE 0

Fin(p) == [k |-> "fin", c |-> Trim(p)]
FromInt(n) == Fin(<<n>>)
NaN == [k |-> "nan", c |-> <<>>]
PInf == [k |-> "pinf", c |-> <<>>]
NInf == [k |-> "ninf", c |-> <<>>]
Zero == Fin(<<>>)

FAdd(a, b) ==
    IF a.k = "nan" \/ b.k = "nan" THEN NaN
    ELSE IF a.k = "fin" /\ b.k = "fin"
        THEN Fin([i \in 1..Max(Len(a.c), Len(b.c)) |-> Coef(a.c, i) + Coef(b.c, i)])
    ELSE IF a.k = "fin" THEN b
    ELSE IF b.k = "fin" THEN a
    ELSE IF a.k = b.k THEN a
    ELSE NaN

FNeg(a) ==
    IF a.k = "fin" THEN Fin([i \in 1..Len(a.c) |-> 0 - a.c[i]])
    ELSE IF a.k = "pinf" THEN NInf
    ELSE IF a.k = "ninf" THEN PInf
    ELSE NaN

FSub(a, b) == FAdd(a, FNeg(b))

\* gamma * a, gamma a positive finite constant
GammaMul(a) ==
    IF a.k = "fin" THEN Fin(IF a.c = <<>> THEN <<>> ELSE <<0>> \o a.c)
    ELSE a

\* 1 - dones[t], for a done flag stored as a boolean or as 0.0 / 1.0
OneMinus(done) == IF done THEN 0 ELSE 1

\* a * m, m in {0, 1}
MaskMul(a, m) ==
    IF a.k = "nan" THEN NaN
    ELSE IF m = 1 THEN a
    ELSE IF a.k = "fin" THEN Zero
    ELSE NaN

\* ------------------------------------------------------------------ estimator
\* the loop body without the (1 - dones[t]) factor
ReturnAtNoMask(reward, done, next_return) ==
    FAdd(reward, GammaMul(next_return))

\* the loop body, line 120-121, with gamma * returns[t+1] * (1 - dones[t])
\* evaluated left to right
ReturnAt(reward, done, next_return) ==
    FAdd(reward, MaskMul(GammaMul(next_return), OneMinus(done)))

\* a forward scan: returns[t] built from returns[t - 1], the bootstrap first
RECURSIVE ForwardLoop(_, _, _, _)
ForwardLoop(returns, rewards, dones, t) ==
    IF t > Len(rewards) THEN returns
    ELSE ForwardLoop(
             [returns EXCEPT ![t] = ReturnAt(rewards[t], dones[t],
                  IF t = 1 THEN returns[Len(returns)] ELSE returns[t - 1])],
             rewards, dones, t + 1)
ReturnsLoopForward(returns, rewards, dones, j) ==
    ForwardLoop(returns, rewards, dones, 1)

\* for t in reversed(range(n)): returns[t] = ...; returns has n + 1 slots and
\* slot t (0-based) is returns[t + 1] here.  j counts the iterations left.
RECURSIVE ReturnsLoop(_, _, _, _)
ReturnsLoop(returns, rewards, dones, j) ==
    IF j = 0 THEN returns
    ELSE ReturnsLoop([returns EXCEPT ![j] = ReturnAt(rewards[j], dones[j], returns[j + 1])],
                     rewards, dones, j - 1)

returns_advantages(rewards, dones, values, next_value) ==
    LET n == Len(rewards)
        appended == [i \in 1..(n + 1) |-> IF i = n + 1 THEN next_value ELSE Zero]
        looped == ReturnsLoop(appended, rewards, dones, n)
        returns == SubSeq(looped, 1, Len(looped) - 1)
        advantages == [i \in 1..Len(returns) |-> FSub(returns[i], values[i])]
    IN  [returns |-> returns, advantages |-> advantages]


\* ------------------------------------------------------------------ state
VARIABLES
    entry,          \* the entry point called: "train", "test", "estimator", "pair"
    pc,             \* position in the entry point's code
    batch_sz,       \* train's arguments
    updates,
    update,         \* train's loop indices (0-based, step also test's counter)
    step,
    actions,        \* train's batch buffers, slot k (0-based) at index k + 1
    rewards,
    dones,
    values,
    observations,
    ep_rews,        \* train's episode totals, the last entry still accumulating
    next_obs,       \* train's next_obs, test's obs
    next_value,     \* the bootstrap value of the current update
    returns,        \* the estimator's outputs of the current update
    advs,
    done,           \* test's locals
    ep_reward,
    result,         \* train's return value
    test_result,    \* test's return value
    params,         \* the model's parameters, as the number of updates applied
    built_len,      \* input length the model's layers were built for, 0 = not built
    reset_len,      \* the environment: flattened length of reset's observations
    step_len,       \*                  and of step's observations
    n_reset,        \* calls of env.reset
    n_est,          \* calls of _returns_advantages made by train
    broadcasts,     \* observations numpy broadcast into a buffer row
    step_log,       \* every env.step call: action received, outputs
    query_log,      \* every model.action_value call: observation received, outputs
    fed,            \* the batch the latest train_on_batch call received
    trace,          \* the calls of the current outer iteration, in order
    est_in,         \* arguments and outputs of the estimator called on its own
    est_out,
    est_in2,        \* a second call, for two-input properties
    est_out2

vars == <<entry, pc, batch_sz, updates, update, step, actions, rewards, dones,
          values, observations, ep_rews, next_obs, next_value, returns, advs,
          done, ep_reward, result, test_result, params, built_len, reset_len,
          step_len, n_reset, n_est, broadcasts, step_log, query_log, fed, trace,
          est_in, est_out, est_in2, est_out2>>

trainBuffers == <<actions, rewards, dones, values, observations>>
trainLocals == <<batch_sz, updates, update, step, ep_rews, next_obs, next_value,
                 returns, advs, result>>
testLocals == <<done, ep_reward, test_result>>
envKind == <<reset_len, step_len>>
estVars == <<est_in, est_out, est_in2, est_out2>>

\* ------------------------------------------------------------------ collaborators
\* rewards an environment step can return
Rewards == {1, 2}

\* An observation is named by the environment call that returned it; len is
\* the length of its flattened form.
Obs(src, id, len) == [src |-> src, id |-> id, len |-> len]
NoObs == Obs("none", 0, ObsLen)

\* contents of an np.empty buffer slot: never read before it is written
EmptyInt == 0 - 1
EmptyRow == Obs("empty", 0, ObsLen)

\* a query that takes a training step
action_value_training(p, obs, q) ==
    [action |-> q, value |-> FromInt(q), params |-> p + 1]

\* Model.action_value, line 38-44: the q-th query samples an action and
\* estimates a value, both named by q, and leaves the parameters alone.
action_value(p, obs, q) == [action |-> q, value |-> FromInt(q), params |-> p]

\* self.model.predict on a 1 x len input: Keras builds the layers for the
\* first input length it sees and rejects any other length afterwards.
ModelAccepts(built, len) == built = 0 \/ built = len
BuiltFor(built, len) == IF built = 0 THEN len ELSE built

\* observations[step] = next_obs.copy(), line 88: numpy stores a row of the
\* buffer's width, broadcasts a row of width 1 and raises on any other width.
RowAssign(len) ==
    IF len = ObsLen THEN "stored" ELSE IF len = 1 THEN "broadcast" ELSE "error"

\* a range that includes its end
InRangeInclusive(i, n) == i <= n

\* range(n), line 86 and 87: is i one of its values
InRange(i, n) == i < n

\* every write lands in slot 0
BufferSetFirst(buf, i, x) == [buf EXCEPT ![1] = x]

\* buf[i] = x on a numpy buffer, 0-based
BufferSet(buf, i, x) == [buf EXCEPT ![i + 1] = x]

\* the total is never closed: no new accumulator on done
EpRewsStepNoAppend(totals, reward, isdone) ==
    [totals EXCEPT ![Len(totals)] = totals[Len(totals)] + reward]

\* the done step's reward is credited to the next episode
EpRewsStepLate(totals, reward, isdone) ==
    IF isdone THEN Append(totals, reward)
    ELSE [totals EXCEPT ![Len(totals)] = totals[Len(totals)] + reward]

\* line 95-97
EpRewsStep(totals, reward, isdone) ==
    LET acc == [totals EXCEPT ![Len(totals)] = totals[Len(totals)] + reward]
    IN  IF isdone THEN Append(acc, 0) ELSE acc

\* the step's observation is carried on even after a done
CarriedObsNoReset(isdone, step_obs, reset_obs) == step_obs

\* line 91-99: the observation carried to the next query
CarriedObs(isdone, step_obs, reset_obs) == IF isdone THEN reset_obs ELSE step_obs

\* ------------------------------------------------------------------ Init
EstDummy == [rewards |-> <<>>, dones |-> <<>>, values |-> <<>>, next_value |-> Zero]
OutDummy == [returns |-> <<>>, advantages |-> <<>>]

InitRest ==
    /\ update = 0 /\ step = 0
    /\ actions = <<>> /\ rewards = <<>> /\ dones = <<>> /\ values = <<>>
    /\ observations = <<>>
    /\ ep_rews = <<>> /\ next_obs = NoObs /\ next_value = Zero
    /\ returns = <<>> /\ advs = <<>>
    /\ done = FALSE /\ ep_reward = 0 /\ result = <<>> /\ test_result = 0
    /\ params = 0 /\ built_len = 0
    /\ n_reset = 0 /\ n_est = 0 /\ broadcasts = 0
    /\ step_log = <<>> /\ query_log = <<>> /\ fed = <<>> /\ trace = <<>>

InitCall ==
    \/ /\ entry = "train" /\ pc = "train_entry"
       /\ batch_sz \in 1..MaxBatch /\ updates \in 0..MaxUpdates
       /\ batch_sz * updates <= MaxSteps
    \/ /\ entry = "test" /\ pc = "test_entry"
       /\ batch_sz = 1 /\ updates = 0

NoEst ==
    /\ est_in = EstDummy /\ est_out = OutDummy
    /\ est_in2 = EstDummy /\ est_out2 = OutDummy

\* an environment whose observations have the length its observation space states
Init ==
    /\ InitCall /\ InitRest /\ NoEst
    /\ reset_len = ObsLen /\ step_len = ObsLen

\* any environment
ObsLens == {1, ObsLen, ObsLen + 1}
InitShape ==
    /\ InitCall /\ InitRest /\ NoEst
    /\ reset_len \in ObsLens /\ step_len \in ObsLens


\* ------------------------------------------------------------------ train
ResetObs(k) == Obs("reset", k, reset_len)
StepObs(k) == Obs("step", k, step_len)
Query(obs, r) ==
    [obs |-> obs, after |-> Len(step_log), action |-> r.action, value |-> r.value]

\* line 76-84, and the first test of the loop of line 86
TrainStart ==
    /\ pc = "train_entry"
    /\ actions' = [i \in 1..batch_sz |-> EmptyInt]
    /\ rewards' = [i \in 1..batch_sz |-> EmptyInt]
    /\ dones' = [i \in 1..batch_sz |-> FALSE]
    /\ values' = [i \in 1..batch_sz |-> FromInt(EmptyInt)]
    /\ observations' = [i \in 1..batch_sz |-> EmptyRow]
    /\ ep_rews' = <<0>>
    /\ n_reset' = n_reset + 1
    /\ next_obs' = ResetObs(n_reset + 1)
    /\ update' = 0 /\ step' = 0
    /\ pc' = IF InRange(0, updates) THEN "query" ELSE "return"
    /\ UNCHANGED <<entry, batch_sz, updates, next_value, returns, advs, result,
                   testLocals, params, built_len, envKind, n_est, broadcasts,
                   step_log, query_log, fed, trace, estVars>>

\* line 88-90: store the observation, sample the action, estimate the value
ActionValue ==
    /\ pc = "query"
    /\ LET fit == RowAssign(next_obs.len)
           q == Len(query_log) + 1
           r == action_value(params, next_obs, q)
       IN  IF fit = "error"
           THEN /\ pc' = "failed"
                /\ UNCHANGED <<trainBuffers, params, built_len, broadcasts,
                               query_log, trace>>
           ELSE /\ observations' =
                       BufferSet(observations, step, [next_obs EXCEPT !.len = ObsLen])
                /\ broadcasts' = broadcasts + (IF fit = "broadcast" THEN 1 ELSE 0)
                /\ IF ModelAccepts(built_len, next_obs.len)
                   THEN /\ actions' = BufferSet(actions, step, r.action)
                        /\ values' = BufferSet(values, step, r.value)
                        /\ params' = r.params
                        /\ built_len' = BuiltFor(built_len, next_obs.len)
                        /\ query_log' = Append(query_log, Query(next_obs, r))
                        /\ trace' = (IF step = 0 THEN <<>> ELSE trace) \o <<"q">>
                        /\ pc' = "env_step"
                   ELSE /\ pc' = "failed"
                        /\ UNCHANGED <<actions, values, params, built_len,
                                       query_log, trace>>
                /\ UNCHANGED <<rewards, dones>>
    /\ UNCHANGED <<entry, trainLocals, testLocals, envKind, n_reset, n_est,
                   step_log, fed, estVars>>

\* line 91-99, and the test of the loop of line 87
EnvStep ==
    /\ pc = "env_step"
    /\ \E reward \in Rewards, isdone \in BOOLEAN :
        LET k == Len(step_log) + 1
            rw == BufferSet(rewards, step, reward)
            dn == BufferSet(dones, step, isdone)
        IN  /\ rewards' = rw
            /\ dones' = dn
            /\ step_log' = Append(step_log,
                   [action |-> actions[step + 1], reward |-> reward,
                    done |-> isdone, obs |-> StepObs(k)])
            /\ ep_rews' = EpRewsStep(ep_rews, rw[step + 1], dn[step + 1])
            /\ n_reset' = IF dn[step + 1] THEN n_reset + 1 ELSE n_reset
            /\ next_obs' = CarriedObs(dn[step + 1], StepObs(k), ResetObs(n_reset + 1))
    /\ step' = step + 1
    /\ trace' = Append(trace, "s")
    /\ pc' = IF InRange(step + 1, batch_sz) THEN "query" ELSE "bootstrap"
    /\ UNCHANGED <<entry, batch_sz, updates, update, actions, values, observations,
                   next_value, returns, advs, result, testLocals, params,
                   built_len, envKind, n_est, broadcasts, query_log, fed, estVars>>

\* line 101: the value of the observation the next step will act on
Bootstrap ==
    /\ pc = "bootstrap"
    /\ LET q == Len(query_log) + 1
           r == action_value(params, next_obs, q)
       IN  IF ModelAccepts(built_len, next_obs.len)
           THEN /\ next_value' = r.value
                /\ params' = r.params
                /\ built_len' = BuiltFor(built_len, next_obs.len)
                /\ query_log' = Append(query_log, Query(next_obs, r))
                /\ trace' = Append(trace, "q")
                /\ pc' = "estimate"
           ELSE /\ pc' = "failed"
                /\ UNCHANGED <<next_value, params, built_len, query_log, trace>>
    /\ UNCHANGED <<entry, batch_sz, updates, update, step, trainBuffers, ep_rews,
                   next_obs, returns, advs, result, testLocals, envKind, n_reset,
                   n_est, broadcasts, step_log, fed, estVars>>

\* line 102-105
Estimate ==
    /\ pc = "estimate"
    /\ LET out == returns_advantages([i \in 1..Len(rewards) |-> FromInt(rewards[i])],
                                     dones, values, next_value)
       IN  /\ returns' = out.returns
           /\ advs' = out.advantages
    /\ n_est' = n_est + 1
    /\ trace' = Append(trace, "e")
    /\ pc' = "train_on_batch"
    /\ UNCHANGED <<entry, batch_sz, updates, update, step, trainBuffers, ep_rews,
                   next_obs, next_value, result, testLocals, params, built_len,
                   envKind, n_reset, broadcasts, step_log, query_log, fed, estVars>>

\* line 107-111, and the next test of the loop of line 86
TrainOnBatch ==
    /\ pc = "train_on_batch"
    /\ IF ModelAccepts(built_len, ObsLen)
       THEN /\ params' = params + 1
            /\ built_len' = BuiltFor(built_len, ObsLen)
            /\ fed' = [x |-> observations, acts |-> actions, advs |-> advs,
                       returns |-> returns]
            /\ trace' = Append(trace, "u")
            /\ update' = update + 1
            /\ step' = 0
            /\ pc' = IF InRange(update + 1, updates) THEN "query" ELSE "return"
       ELSE /\ pc' = "failed"
            /\ UNCHANGED <<params, built_len, fed, trace, update, step>>
    /\ UNCHANGED <<entry, batch_sz, updates, trainBuffers, ep_rews, next_obs,
                   next_value, returns, advs, result, testLocals, envKind,
                   n_reset, n_est, broadcasts, step_log, query_log, estVars>>

\* line 113
TrainReturn ==
    /\ pc = "return"
    /\ result' = ep_rews
    /\ pc' = "train_done"
    /\ UNCHANGED <<entry, batch_sz, updates, update, step, trainBuffers, ep_rews,
                   next_obs, next_value, returns, advs, testLocals, params,
                   built_len, envKind, n_reset, n_est, broadcasts, step_log,
                   query_log, fed, trace, estVars>>

\* ------------------------------------------------------------------ test
\* line 59-61, and the first test of the loop of line 62
TestStart ==
    /\ pc = "test_entry"
    /\ n_reset' = n_reset + 1
    /\ next_obs' = ResetObs(n_reset + 1)
    /\ done' = FALSE
    /\ ep_reward' = 0
    /\ step' = 0
    /\ pc' = "test_query"
    /\ UNCHANGED <<entry, batch_sz, updates, update, trainBuffers, ep_rews,
                   next_value, returns, advs, result, test_result, params,
                   built_len, envKind, n_est, broadcasts, step_log, query_log,
                   fed, trace, estVars>>

\* line 63-66
TestQuery ==
    /\ pc = "test_query"
    /\ step < MaxTestSteps
    /\ step' = step + 1
    /\ LET q == Len(query_log) + 1
           r == action_value(params, next_obs, q)
       IN  IF ModelAccepts(built_len, next_obs.len)
           THEN /\ params' = r.params
                /\ built_len' = BuiltFor(built_len, next_obs.len)
                /\ query_log' = Append(query_log, Query(next_obs, r))
                /\ pc' = "test_step"
           ELSE /\ pc' = "failed"
                /\ UNCHANGED <<params, built_len, query_log>>
    /\ UNCHANGED <<entry, batch_sz, updates, update, trainBuffers, ep_rews,
                   next_obs, next_value, returns, advs, result, testLocals,
                   envKind, n_reset, n_est, broadcasts, step_log, fed, trace,
                   estVars>>

\* line 67-71, and the next test of the loop of line 62
TestEnvStep ==
    /\ pc = "test_step"
    /\ \E reward \in Rewards, isdone \in BOOLEAN :
        LET k == Len(step_log) + 1
        IN  /\ step_log' = Append(step_log,
                   [action |-> query_log[Len(query_log)].action, reward |-> reward,
                    done |-> isdone, obs |-> StepObs(k)])
            /\ next_obs' = StepObs(k)
            /\ done' = isdone
            /\ ep_reward' = ep_reward + reward
            /\ pc' = IF isdone THEN "test_return" ELSE "test_query"
    /\ UNCHANGED <<entry, batch_sz, updates, update, step, trainBuffers, ep_rews,
                   next_value, returns, advs, result, test_result, params,
                   built_len, envKind, n_reset, n_est, broadcasts, query_log,
                   fed, trace, estVars>>

\* line 72
TestReturn ==
    /\ pc = "test_return"
    /\ test_result' = step
    /\ pc' = "test_done"
    /\ UNCHANGED <<entry, batch_sz, updates, update, step, trainBuffers, ep_rews,
                   next_obs, next_value, returns, advs, result, done, ep_reward,
                   params, built_len, envKind, n_reset, n_est, broadcasts,
                   step_log, query_log, fed, trace, estVars>>

Next ==
    \/ TrainStart \/ ActionValue \/ EnvStep \/ Bootstrap \/ Estimate
    \/ TrainOnBatch \/ TrainReturn
    \/ TestStart \/ TestQuery \/ TestEnvStep \/ TestReturn

Spec == Init /\ [][Next]_vars
SpecShape == InitShape /\ [][Next]_vars


\* ------------------------------------------------------------------ the estimator on its own
EstRewards == {FromInt(1), FromInt(5)}
EstValues == {FromInt(0), FromInt(2)}
EstBoots == {FromInt(0), FromInt(100), PInf, NaN}
PairBoots == {FromInt(0), PInf}

EstInputs(n, boots) ==
    [rewards : [1..n -> EstRewards], dones : [1..n -> BOOLEAN],
     values : [1..n -> EstValues], next_value : boots]

InitIdle ==
    /\ InitRest
    /\ batch_sz = 1 /\ updates = 0
    /\ reset_len = ObsLen /\ step_len = ObsLen

InitEst ==
    /\ entry = "estimator" /\ pc = "est_entry"
    /\ InitIdle
    /\ \E n \in 1..MaxLen : est_in \in EstInputs(n, EstBoots)
    /\ est_out = OutDummy
    /\ est_in2 = EstDummy /\ est_out2 = OutDummy

InitPair ==
    /\ entry = "pair" /\ pc = "pair_entry"
    /\ InitIdle
    /\ \E n \in 1..PairLen :
        /\ est_in \in EstInputs(n, PairBoots)
        /\ est_in2 \in EstInputs(n, PairBoots)
    /\ est_out = OutDummy /\ est_out2 = OutDummy

Call(in) == returns_advantages(in.rewards, in.dones, in.values, in.next_value)

notEst == <<entry, trainLocals, trainBuffers, testLocals, params, built_len,
            envKind, n_reset, n_est, broadcasts, step_log, query_log, fed, trace>>

EstimatorCall ==
    /\ pc = "est_entry"
    /\ est_out' = Call(est_in)
    /\ pc' = "est_done"
    /\ UNCHANGED <<notEst, est_in, est_in2, est_out2>>

PairCall ==
    /\ pc = "pair_entry"
    /\ est_out' = Call(est_in)
    /\ est_out2' = Call(est_in2)
    /\ pc' = "pair_done"
    /\ UNCHANGED <<notEst, est_in, est_in2>>

SpecEst == InitEst /\ [][EstimatorCall]_vars
SpecPair == InitPair /\ [][PairCall]_vars


\* ------------------------------------------------------------------ reading the logs
DoneIdx == {i \in 1..Len(step_log) : step_log[i].done}
DonesUpTo(a) == Cardinality({i \in DoneIdx : i <= a})
NthDone(j) == CHOOSE i \in DoneIdx : DonesUpTo(i) = j

\* first step of the episode that step i belongs to
EpisodeStart(i) ==
    LET before == {j \in DoneIdx : j < i}
    IN  IF before = {} THEN 1 ELSE 1 + (CHOOSE j \in before : \A m \in before : m <= j)

RECURSIVE SumRewards(_, _)
SumRewards(a, b) == IF a > b THEN 0 ELSE step_log[a].reward + SumRewards(a + 1, b)

\* total reward of every episode that ended, in the order they ended
FinishedTotals ==
    [j \in 1..Cardinality(DoneIdx) |-> SumRewards(EpisodeStart(NthDone(j)), NthDone(j))]
\* reward received since the last done
InProgress == SumRewards(EpisodeStart(Len(step_log) + 1), Len(step_log))

InTrain == entry = "train" /\ pc \notin {"train_entry", "failed"}
BatchFull == pc \in {"bootstrap", "estimate", "train_on_batch"}

\* ------------------------------------------------------------------ C1
\* C1 as stated: train returns exactly one entry per step whose done flag
\* was true, in the order the episodes ended, and no entry for the episode
\* still in progress when the loop exited.
C1_ReturnsFinishedOnly ==
    pc = "train_done" => result = FinishedTotals

\* C1 as amended: train returns the totals of the finished episodes, in the
\* order they ended, followed by one last entry, the accumulator of the
\* episode in progress when the loop exited.
C1_ReturnsFinishedThenAccumulator ==
    pc = "train_done" => result = Append(FinishedTotals, InProgress)

C1_Witness ==
    /\ pc = "train_done"
    /\ Len(result) >= 3
    /\ result[Len(result)] > 0

\* ------------------------------------------------------------------ C5
\* C5: at every point of train, each finalized total is the sum of the
\* rewards of the steps of its episode, up to and including its done step,
\* and the accumulator is the sum of the rewards received since the last
\* done; a batch boundary does not reset it.
C5_EpisodeAccounting ==
    InTrain =>
        /\ Len(ep_rews) = Cardinality(DoneIdx) + 1
        /\ \A j \in 1..Cardinality(DoneIdx) :
               ep_rews[j] = SumRewards(EpisodeStart(NthDone(j)), NthDone(j))
        /\ ep_rews[Len(ep_rews)] = InProgress
        /\ (step_log # <<>> /\ step_log[Len(step_log)].done
                => ep_rews[Len(ep_rews)] = 0)

\* an episode that ended, and an accumulator holding rewards of two updates
C5_Witness ==
    /\ InTrain /\ batch_sz = 2 /\ Len(step_log) = 3
    /\ step_log[1].done /\ ~step_log[2].done /\ ~step_log[3].done
    /\ ep_rews = <<step_log[1].reward, step_log[2].reward + step_log[3].reward>>

\* ------------------------------------------------------------------ C6
\* C6: every observation given to the model in train is the one not yet
\* acted upon: the latest env.reset's if no step was taken yet or the
\* preceding step returned done, else the preceding env.step's; a done
\* step's observation is never given to the model; env.reset is called once
\* at the start and once per done step; the bootstrap observation of an
\* update is the one acted on at step 0 of the next.
C6_ObservationStream ==
    InTrain =>
        /\ n_reset = 1 + Cardinality(DoneIdx)
        /\ \A q \in 1..Len(query_log) :
            LET a == query_log[q].after
                o == query_log[q].obs
            IN  /\ o = IF a = 0 \/ step_log[a].done
                       THEN ResetObs(1 + DonesUpTo(a))
                       ELSE step_log[a].obs
                /\ (o.src = "step" => ~step_log[o.id].done)
                /\ (q % (batch_sz + 1) = 0 /\ q < Len(query_log)
                        => query_log[q + 1].obs = o)

\* a query right after a done step, and a bootstrap followed by a next update
C6_Witness ==
    /\ InTrain
    /\ \E q \in 1..Len(query_log) :
        /\ query_log[q].after > 0
        /\ step_log[query_log[q].after].done
        /\ q % (batch_sz + 1) = 0
        /\ q < Len(query_log)

\* ------------------------------------------------------------------ C7
RECURSIVE QueryStep(_)
QueryStep(b) == IF b = 0 THEN <<>> ELSE <<"q", "s">> \o QueryStep(b - 1)
\* the calls of one outer iteration
IterationCalls(b) == QueryStep(b) \o <<"q", "e", "u">>

Bit(p) == IF p THEN 1 ELSE 0

C7_Schedule ==
    entry = "train" /\ pc # "train_entry" =>
        /\ pc \in {"query", "env_step", "bootstrap", "estimate", "train_on_batch",
                   "return", "train_done"}
        /\ update <= updates
        /\ (pc \in {"query", "env_step"} \cup {"bootstrap", "estimate", "train_on_batch"}
                => update < updates)
        /\ (pc \in {"return", "train_done"} => update = updates /\ step = 0)
        /\ (pc \in {"query", "env_step"} => step < batch_sz)
        /\ (BatchFull => step = batch_sz)
        /\ Len(step_log) = update * batch_sz + step
        /\ Len(query_log) = update * (batch_sz + 1) + step + Bit(pc = "env_step")
                                + Bit(pc \in {"estimate", "train_on_batch"})
        /\ n_est = update + Bit(pc = "train_on_batch")
        /\ params = update
        /\ trace = SubSeq(IterationCalls(batch_sz), 1,
                     IF pc = "env_step" THEN 2 * step + 1
                     ELSE IF pc = "estimate" THEN 2 * step + 1
                     ELSE IF pc = "train_on_batch" THEN 2 * step + 2
                     ELSE IF step > 0 THEN 2 * step
                     ELSE IF update > 0 THEN 2 * batch_sz + 3
                     ELSE 0)

\* operations train has left: 2 * batch_sz + 3 per outer iteration to come,
\* less those of the current iteration already made, and the return
C7_Remaining ==
    IF pc = "train_done" THEN 0
    ELSE IF pc = "return" THEN 1
    ELSE IF pc = "train_entry" THEN 2 + updates * (2 * batch_sz + 3)
    ELSE 1 + (updates - update) * (2 * batch_sz + 3)
           - (2 * step + Bit(pc = "env_step") + Bit(pc = "estimate")
                + 2 * Bit(pc = "train_on_batch"))

\* C7: train runs exactly `updates` outer iterations and then returns; each
\* iteration makes batch_sz env.step calls, each after one query, then one
\* bootstrap query, one estimator call and one model update, in that order,
\* whatever the done flags are.  Termination: train is always at one of its
\* operations or has returned, and each operation leaves one fewer to do.
C7_FixedSchedule ==
    /\ []C7_Schedule
    /\ [][entry = "train" => C7_Remaining' = C7_Remaining - 1 /\ C7_Remaining' >= 0]_vars

\* a run of two updates in which a done came before the end of a batch
C7_Witness ==
    /\ pc = "train_done" /\ updates = 2 /\ batch_sz = 3
    /\ step_log[1].done /\ step_log[4].done
    /\ params = 2 /\ Len(step_log) = 6 /\ Len(query_log) = 8

\* ------------------------------------------------------------------ C8
C8_TestFrame ==
    entry = "test" =>
        /\ params = 0
        /\ n_est = 0
        /\ n_reset <= 1
        /\ (pc = "test_done" =>
                /\ test_result = Len(step_log)
                /\ test_result >= 1
                /\ step_log[test_result].done
                /\ \A k \in 1..(test_result - 1) : ~step_log[k].done)

\* C8: the parameters change only in the model update, by one update; no
\* query changes them, in train or in test; test makes no update and no
\* reset after its first, and returns the number of env.step calls up to
\* the first done, at least 1.
C8_ParamsFrame ==
    /\ [][params' # params => pc = "train_on_batch" /\ params' = params + 1]_vars
    /\ []C8_TestFrame

C8_Witness ==
    /\ pc = "test_done" /\ test_result = 2 /\ Len(query_log) = 2

\* ------------------------------------------------------------------ C9
\* C9 as stated: when an observation's length differs from ObsLen, train
\* fails before any env.step call and before any model update, and never
\* broadcasts the observation into the batch.
C9_FailsFast ==
    entry = "train" =>
        /\ broadcasts = 0
        /\ (pc = "failed" => step_log = <<>> /\ params = 0)
        /\ (reset_len # ObsLen => step_log = <<>> /\ params = 0)

\* ------------------------------------------------------------------ C10
\* the batch of outer iteration u (0-based), read from the collaborators' logs
LoggedBatch(u) ==
    LET b == batch_sz
        qs == [k \in 1..b |-> query_log[u * (b + 1) + k]]
        ss == [k \in 1..b |-> step_log[u * b + k]]
        out == returns_advantages([k \in 1..b |-> FromInt(ss[k].reward)],
                                  [k \in 1..b |-> ss[k].done],
                                  [k \in 1..b |-> qs[k].value],
                                  query_log[(u + 1) * (b + 1)].value)
    IN  [x |-> [k \in 1..b |-> qs[k].obs], acts |-> [k \in 1..b |-> qs[k].action],
         advs |-> out.advantages, returns |-> out.returns]

\* C10: when the batch is full, slot k holds the k-th transition of the
\* current outer iteration and nothing older: observations[k] is the
\* observation given to the query that returned actions[k] and values[k],
\* made before the step, and rewards[k], dones[k] are what env.step returned
\* for actions[k]; the update receives exactly that batch.
C10_BatchIntegrity ==
    /\ InTrain /\ BatchFull =>
        \A k \in 1..batch_sz :
            LET qr == query_log[update * (batch_sz + 1) + k]
                st == step_log[update * batch_sz + k]
            IN  /\ observations[k] = qr.obs
                /\ actions[k] = qr.action
                /\ values[k] = qr.value
                /\ qr.after = update * batch_sz + k - 1
                /\ st.action = actions[k]
                /\ rewards[k] = st.reward
                /\ dones[k] = st.done
    /\ InTrain /\ params > 0 => fed = LoggedBatch(params - 1)

\* the buffers of a second iteration, with a done inside the batch
C10_Witness ==
    /\ InTrain /\ pc = "train_on_batch" /\ update = 1 /\ batch_sz = 3
    /\ dones[1] /\ ~dones[3]
    /\ fed # <<>>


\* ------------------------------------------------------------------ C2
RECURSIVE Pow(_, _)
Pow(b, e) == IF e = 0 THEN 1 ELSE b * Pow(b, e - 1)

ExampleIn ==
    [rewards |-> <<FromInt(1), FromInt(1), FromInt(1), FromInt(1)>>,
     dones |-> <<FALSE, FALSE, FALSE, TRUE>>,
     values |-> <<FromInt(0), FromInt(0), FromInt(0), FromInt(0)>>,
     next_value |-> FromInt(0)]
\* 3.940399, 2.9701, 1.99, 1.0 in units of GammaDen^-4
ExampleReturns == <<394039900, 297010000, 199000000, 100000000>>

\* a finite float at gamma = GammaNum / GammaDen, in units of GammaDen^-d
RECURSIVE ScaledFrom(_, _, _)
ScaledFrom(c, i, d) ==
    IF i > Len(c) THEN 0
    ELSE c[i] * Pow(GammaNum, i - 1) * Pow(GammaDen, d - (i - 1)) + ScaledFrom(c, i + 1, d)
Scaled(x, d) == ScaledFrom(x.c, 1, d)

\* C2: the estimator's outputs have the length n of its inputs and satisfy
\* the backward recurrence returns[t] = rewards[t] + gamma * returns[t+1] *
\* (1 - dones[t]) with returns[n] the bootstrap value, which is not in the
\* output, and advantages[t] = returns[t] - values[t]; on the example input
\* the returns are 3.940399, 2.9701, 1.99, 1.0 and the advantages the same.
C2_BackwardRecurrence ==
    pc = "est_done" =>
        LET n == Len(est_in.rewards)
            ret == est_out.returns
            adv == est_out.advantages
        IN  /\ Len(ret) = n /\ Len(adv) = n
            /\ \A t \in 1..n :
                LET nxt == IF t = n THEN est_in.next_value ELSE ret[t + 1]
                IN  /\ ret[t] = FAdd(est_in.rewards[t],
                                     MaskMul(GammaMul(nxt), OneMinus(est_in.dones[t])))
                    /\ adv[t] = FSub(ret[t], est_in.values[t])
            /\ (est_in = ExampleIn =>
                    /\ \A t \in 1..n :
                           ret[t].k = "fin" /\ Scaled(ret[t], n) = ExampleReturns[t]
                    /\ adv = ret)

C2_Witness ==
    /\ pc = "est_done" /\ est_in = ExampleIn
    /\ Len(est_out.returns) = Len(ExampleReturns)

\* ------------------------------------------------------------------ C3
\* C3 as stated: wherever dones[t] is true, returns[t] is rewards[t],
\* whatever the bootstrap value and the later rewards are.
C3_DoneCutsBootstrap ==
    pc = "est_done" =>
        \A t \in 1..Len(est_in.rewards) :
            est_in.dones[t] => est_out.returns[t] = est_in.rewards[t]

\* ------------------------------------------------------------------ C4
\* the two inputs agree on the bootstrap value and on rewards and dones
\* at every index above t
AgreeAbove(t) ==
    /\ est_in.next_value = est_in2.next_value
    /\ \A k \in (t + 1)..Len(est_in.rewards) :
        /\ est_in.rewards[k] = est_in2.rewards[k]
        /\ est_in.dones[k] = est_in2.dones[k]

\* C4: two inputs of the same length that agree on the bootstrap value and
\* on rewards and dones at every index above t give the same returns at
\* every index above t, whatever they hold at t and below and in values.
C4_NoForwardLeak ==
    pc = "pair_done" =>
        \A t \in 0..Len(est_in.rewards) :
            AgreeAbove(t) =>
                \A u \in (t + 1)..Len(est_in.rewards) :
                    est_out.returns[u] = est_out2.returns[u]

\* inputs that differ at index 1 only, and whose returns differ there only
C4_Witness ==
    /\ pc = "pair_done" /\ Len(est_in.rewards) = 2
    /\ AgreeAbove(1)
    /\ est_in.rewards[1] # est_in2.rewards[1]
    /\ est_in.values # est_in2.values
    /\ est_out.returns[1] # est_out2.returns[1]
    /\ est_out.returns[2] = est_out2.returns[2]

====
